---- MODULE Spec2Model ----
(***************************************************************************)
(* Model of src/main.py: the maze generator (class Maze), the collision    *)
(* test and motion of the player (class Camera) and the portal test.       *)
(*                                                                         *)
(* World coordinates are fixed-point numbers counted in tenths of a world  *)
(* unit: the start position 1.5 is 15, PLAYER_RADIUS 0.2 is 2, a cell is   *)
(* 10 wide.  Cell values are those of the numpy grid: 1 is a wall, 0 is a  *)
(* path.  A cell is a pair <<x, y>> and is read as grid[x][y].             *)
(***************************************************************************)
EXTENDS Integers, Sequences, FiniteSets, TLC

VARIABLES
    size,        \* Maze.size
    grid,        \* the array `maze` of generate_maze, then Maze.grid
    stack,       \* the list `stack` of generate_maze
    removals,    \* number of executions of line 43 (midpoint cleared)
    portal_pos,  \* Maze.portal_pos
    fallback,    \* TRUE iff find_valid_portal_position returned at line 62
    x, z,        \* Camera.x, Camera.z (tenths)
    call,        \* the last call made on the camera: the method, its result
                 \* and the axes along which it changed the position
    pc,          \* position of the program
    y,           \* Camera.y (tenths)
    angle_yaw,   \* Camera.angle_yaw (degrees)
    running,     \* the local `running` of main
    tick,        \* what the last iteration of the loop of main did
    depth        \* number of activations of main on the call stack

vars == <<size, grid, stack, removals, portal_pos, fallback, x, z, call, pc,
          y, angle_yaw, running, tick, depth>>

(***************************************************************************)
(* Program constants and bounds of the model.                              *)
(***************************************************************************)
MAZE_SIZE == 14

PLAYER_RADIUS == 2

\* Largest grid size constructed; sizes start at 3, the smallest for which
\* cell (1, 1) is an interior cell.
MaxSize == 7

Sizes == 3..MaxSize

\* Side of the hand-built grids of the collision scenarios.
GridSize == 5

\* Deltas handed to Camera.move on generated mazes: a short step and a step
\* longer than a cell, which can carry the player across a wall cell into the
\* room behind it, both ways.
Deltas == {-16, -2, 2, 16}

\* Deltas handed to Camera.move on hand-built grids.
GridDeltas == {-3, 3}

NoCall == [op |-> "none", ret |-> "None", committed |-> {}]

\* no iteration of the loop of main has run
NoTick == [quit |-> FALSE, moves |-> 0, rotates |-> 0, turn |-> 0, checked |-> FALSE]

(***************************************************************************)
(* Maze.generate_maze                                                      *)
(***************************************************************************)
Cells(n) == {<<i, j>> : i \in 0..(n - 1), j \in 0..(n - 1)}

\* np.ones((size, size)) with maze[1, 1] = 0
InitialMaze(n) ==
    [i \in 0..(n - 1) |-> [j \in 0..(n - 1) |-> IF i = 1 /\ j = 1 THEN 0 ELSE 1]]

\* the four moves of two cells, in the order of the list of line 35
Offsets == << <<0, 2>>, <<0, -2>>, <<2, 0>>, <<-2, 0>> >>

\* the bounds test with the last row and column let through
InInterior_inclusive(n, c) == 0 < c[1] /\ c[1] <= n - 1 /\ 0 < c[2] /\ c[2] <= n - 1

\* the bounds test of line 37
InInterior(n, c) == 0 < c[1] /\ c[1] < n - 1 /\ 0 < c[2] /\ c[2] < n - 1

\* the midpoint taken along the first index only
Midpoint_first_index(c, d) == <<(c[1] + d[1]) \div 2, c[2]>>

\* the cell between the current and the chosen cell (line 43)
Midpoint(c, d) == <<(c[1] + d[1]) \div 2, (c[2] + d[2]) \div 2>>

\* the filter testing the wall in between instead of the cell two steps away
Neighbors_wall_test(g, n, c) ==
    LET cand == [i \in 1..Len(Offsets) |-> <<c[1] + Offsets[i][1], c[2] + Offsets[i][2]>>]
    IN  SelectSeq(cand, LAMBDA p : InInterior(n, p) /\ g[Midpoint(c, p)[1]][Midpoint(c, p)[2]] = 1)

\* the list `neighbors` after the filter of line 37
Neighbors(g, n, c) ==
    LET cand == [i \in 1..Len(Offsets) |-> <<c[1] + Offsets[i][1], c[2] + Offsets[i][2]>>]
    IN  SelectSeq(cand, LAMBDA p : InInterior(n, p) /\ g[p[1]][p[2]] = 1)

\* the chosen cell marked twice, the midpoint never
CarveGrid_no_midpoint(g, c, d) == [g EXCEPT ![d[1]][d[2]] = 0]

\* lines 43 and 45: the midpoint and the chosen cell become path
CarveGrid(g, c, d) ==
    LET m == Midpoint(c, d)
        g1 == [g EXCEPT ![m[1]][m[2]] = 0]
    IN  [g1 EXCEPT ![d[1]][d[2]] = 0]

Top == stack[Len(stack)]

\* one iteration of the loop taking the branch of line 39
Carve ==
    /\ pc = "generate"
    /\ stack # <<>>
    /\ Neighbors(grid, size, Top) # <<>>
    /\ \E i \in 1..Len(Neighbors(grid, size, Top)) :
          LET d == Neighbors(grid, size, Top)[i]
          IN  /\ grid' = CarveGrid(grid, Top, d)
              /\ stack' = Append(stack, d)
    /\ removals' = removals + 1
    /\ UNCHANGED <<size, portal_pos, fallback, x, z, call, pc,
                 y, angle_yaw, running, tick, depth>>

\* one iteration of the loop taking the branch of line 48
\* a pop that leaves the stack as it is
pop_none(s) == s

\* stack.pop() (line 50): the stack without its last element
pop(s) == SubSeq(s, 1, Len(s) - 1)

Backtrack ==
    /\ pc = "generate"
    /\ stack # <<>>
    /\ Neighbors(grid, size, Top) = <<>>
    /\ stack' = pop(stack)
    /\ UNCHANGED <<size, grid, removals, portal_pos, fallback, x, z, call, pc,
                 y, angle_yaw, running, tick, depth>>

\* the loop ends and generate_maze returns the grid (lines 32, 52, 21)
GenerateReturn ==
    /\ pc = "generate"
    /\ stack = <<>>
    /\ pc' = "portal"
    /\ UNCHANGED <<size, grid, stack, removals, portal_pos, fallback, x, z, call,
                 y, angle_yaw, running, tick, depth>>

(***************************************************************************)
(* Maze.find_valid_portal_position                                         *)
(***************************************************************************)
\* the two loops of lines 58-61 continued from cell (i, j); the result says
\* whether a path cell was found (line 61) or the scan ran out (line 62)
RECURSIVE ScanPortal(_, _, _, _)
ScanPortal(g, n, i, j) ==
    IF i < 1 THEN [pos |-> <<1, 1>>, found |-> FALSE]
    ELSE IF j < 1 THEN ScanPortal(g, n, i - 1, n - 1)
    ELSE IF g[i][j] = 0 THEN [pos |-> <<i, j>>, found |-> TRUE]
    ELSE ScanPortal(g, n, i, j - 1)

\* the inner loop run upwards: the first path cell of the last row holding one
find_valid_portal_position_ascending(g, n) ==
    LET rows == {i \in 1..(n - 1) : \E j \in 1..(n - 1) : g[i][j] = 0}
    IN  IF rows = {} THEN [pos |-> <<1, 1>>, found |-> FALSE]
        ELSE LET i == CHOOSE r \in rows : \A q \in rows : q <= r
                 j == CHOOSE k \in 1..(n - 1) :
                          g[i][k] = 0 /\ \A q \in 1..(k - 1) : g[i][q] = 1
             IN  [pos |-> <<i, j>>, found |-> TRUE]

find_valid_portal_position(g, n) == ScanPortal(g, n, n - 1, n - 1)

\* Maze.__init__, line 22
FindPortal ==
    /\ pc = "portal"
    /\ portal_pos' = find_valid_portal_position(grid, size).pos
    /\ fallback' = ~find_valid_portal_position(grid, size).found
    /\ pc' = "camera"
    /\ UNCHANGED <<size, grid, stack, removals, x, z, call,
                 y, angle_yaw, running, tick, depth>>

(***************************************************************************)
(* Camera                                                                  *)
(***************************************************************************)
\* Camera.__init__: the start pose (1.5, 0.5, 1.5) facing angle 0; then main sets
\* running = True (line 290) before the first iteration of its loop
CameraInit ==
    /\ pc = "camera"
    /\ x' = 15
    /\ z' = 15
    /\ call' = NoCall
    /\ pc' = "play"
    /\ y' = 5
    /\ angle_yaw' = 0
    /\ running' = TRUE
    /\ tick' = NoTick
    /\ UNCHANGED <<size, grid, stack, removals, portal_pos, fallback, depth>>

\* rounding to the nearest integer instead of truncating
int_round(v) == (v + 5) \div 10

\* Python's int() of a float: truncation towards zero
int(v) == IF v >= 0 THEN v \div 10 ELSE -((-v) \div 10)

\* an index Python accepts for a sequence of length n, and the element a
\* negative one selects
IndexOk(n, i) == -n <= i /\ i < n

PyIndex(n, i) == IF i < 0 THEN i + n ELSE i

\* Python's len() of the grid, an array indexed from 0
len(g) == Cardinality(DOMAIN g)

\* the corner offsets in the order of the loops of lines 124-125
Corners ==
    << <<-PLAYER_RADIUS, -PLAYER_RADIUS>>, <<-PLAYER_RADIUS, PLAYER_RADIUS>>,
       <<PLAYER_RADIUS, -PLAYER_RADIUS>>, <<PLAYER_RADIUS, PLAYER_RADIUS>> >>

\* the loops of lines 124-128 from corner k on: "False" at the first wall,
\* "IndexError" at the first lookup outside the array, "True" after the last
RECURSIVE CheckCorners(_, _, _, _)
CheckCorners(g, new_x, new_z, k) ==
    IF k > Len(Corners) THEN "True"
    ELSE LET n == len(g)
             ci == int(new_x + Corners[k][1])
             cj == int(new_z + Corners[k][2])
         IN  IF ~(IndexOk(n, ci) /\ IndexOk(n, cj)) THEN "IndexError"
             ELSE IF g[PyIndex(n, ci)][PyIndex(n, cj)] = 1 THEN "False"
             ELSE CheckCorners(g, new_x, new_z, k + 1)

\* the test of the centre alone, the corners never looked at
can_move_centre_only(g, new_x, new_z) ==
    LET n == len(g)
        maze_x == int(new_x)
        maze_z == int(new_z)
    IN  IF /\ 0 <= maze_x /\ maze_x < n
           /\ 0 <= maze_z /\ maze_z < n
           /\ g[maze_x][maze_z] = 0
        THEN "True"
        ELSE "False"

\* Camera.can_move (the grid is square: len(grid[0]) = len(grid))
can_move(g, new_x, new_z) ==
    LET n == len(g)
        maze_x == int(new_x)
        maze_z == int(new_z)
    IN  IF /\ 0 <= maze_x /\ maze_x < n
           /\ 0 <= maze_z /\ maze_z < n
           /\ g[maze_x][maze_z] = 0
        THEN CheckCorners(g, new_x, new_z, 1)
        ELSE "False"

\* the z test made at the old x instead of the x just committed
move_old_x(g, cx, cz, dx, dz) ==
    LET new_x == cx + dx
        new_z == cz + dz
        r1 == can_move(g, new_x, cz)
        x1 == IF r1 = "True" THEN new_x ELSE cx
        r2 == IF r1 = "IndexError" THEN "IndexError" ELSE can_move(g, cx, new_z)
        z1 == IF r2 = "True" THEN new_z ELSE cz
    IN  [x |-> x1, z |-> z1,
         ret |-> IF r2 = "IndexError" THEN "IndexError" ELSE "None",
         committed |-> {a \in {"x"} : r1 = "True"} \cup {a \in {"z"} : r2 = "True"}]

\* Camera.move: the position after the call and how the call ended
move(g, cx, cz, dx, dz) ==
    LET new_x == cx + dx
        new_z == cz + dz
        r1 == can_move(g, new_x, cz)
        x1 == IF r1 = "True" THEN new_x ELSE cx
        r2 == IF r1 = "IndexError" THEN "IndexError" ELSE can_move(g, x1, new_z)
        z1 == IF r2 = "True" THEN new_z ELSE cz
    IN  [x |-> x1, z |-> z1,
         ret |-> IF r2 = "IndexError" THEN "IndexError" ELSE "None",
         committed |-> {a \in {"x"} : r1 = "True"} \cup {a \in {"z"} : r2 = "True"}]

Move(dx, dz) ==
    /\ pc = "play"
    /\ LET r == move(grid, x, z, dx, dz)
       IN  /\ x' = r.x
           /\ z' = r.z
           /\ call' = [op |-> "move", ret |-> r.ret, committed |-> r.committed]
           /\ pc' = IF r.ret = "IndexError" THEN "crashed" ELSE "play"
    /\ UNCHANGED <<size, grid, stack, removals, portal_pos, fallback,
                 y, angle_yaw, running, tick, depth>>

\* check_portal_collision with a threshold of 0.2 in place of 0.5
check_portal_collision_tight(cx, cz, p) ==
    (cx - 10 * p[1]) * (cx - 10 * p[1]) + (cz - 10 * p[2]) * (cz - 10 * p[2]) < 4

\* Camera.check_portal_collision: sqrt(d2) < 0.5 iff d2 < 0.25, in tenths 25
check_portal_collision(cx, cz, p) ==
    LET portal_x == 10 * p[1]
        portal_z == 10 * p[2]
    IN  (cx - portal_x) * (cx - portal_x) + (cz - portal_z) * (cz - portal_z) < 25

CheckPortal ==
    /\ pc = "play"
    /\ call' = [op |-> "check_portal_collision",
                ret |-> IF check_portal_collision(x, z, portal_pos) THEN "True" ELSE "False",
                committed |-> {}]
    /\ UNCHANGED <<size, grid, stack, removals, portal_pos, fallback, x, z, pc,
                 y, angle_yaw, running, tick, depth>>

(***************************************************************************)
(* The program: Maze(size) is constructed, then Camera(maze), then the     *)
(* camera is moved and tested against the portal.                          *)
(***************************************************************************)
\* Maze.__init__ up to the loop of generate_maze (lines 20, 27-30)
Init ==
    /\ size \in Sizes
    /\ grid = InitialMaze(size)
    /\ stack = << <<1, 1>> >>
    /\ removals = 0
    /\ portal_pos = <<0, 0>>
    /\ fallback = FALSE
    /\ x = 0
    /\ z = 0
    /\ call = NoCall
    /\ pc = "generate"
    /\ y = 0
    /\ angle_yaw = 0
    /\ running = TRUE
    /\ tick = NoTick
    /\ depth = 1

Next ==
    \/ Carve
    \/ Backtrack
    \/ GenerateReturn
    \/ FindPortal
    \/ CameraInit
    \/ \E dx \in Deltas, dz \in Deltas : Move(dx, dz)
    \/ CheckPortal

Spec == Init /\ [][Next]_vars

(***************************************************************************)
(* Hand-built grids: a camera placed at (2.4, 2.4) on a grid in which cell *)
(* (2, 2) is a path, (2, 3) a wall and (3, 2) a path.  The ring of border  *)
(* cells is all wall or all path, the cells of `open` are paths and every  *)
(* other cell is a wall.                                                   *)
(***************************************************************************)
FreeCells == {<<1, 2>>, <<3, 3>>, <<3, 1>>}

ScenarioGrid(n, border, open) ==
    [i \in 0..(n - 1) |-> [j \in 0..(n - 1) |->
        IF <<i, j>> \in {<<2, 2>>, <<3, 2>>} THEN 0
        ELSE IF <<i, j>> = <<2, 3>> THEN 1
        ELSE IF i \in {0, n - 1} \/ j \in {0, n - 1} THEN border
        ELSE IF <<i, j>> \in open THEN 0
        ELSE 1]]

InitGrid ==
    /\ size = GridSize
    /\ \E border \in {0, 1}, open \in SUBSET FreeCells :
          grid = ScenarioGrid(size, border, open)
    /\ stack = <<>>
    /\ removals = 0
    /\ portal_pos = find_valid_portal_position(grid, size).pos
    /\ fallback = ~find_valid_portal_position(grid, size).found
    /\ x = 24
    /\ z = 24
    /\ call = NoCall
    /\ pc = "play"
    /\ y = 5
    /\ angle_yaw = 0
    /\ running = TRUE
    /\ tick = NoTick
    /\ depth = 1

NextGrid ==
    \/ \E dx \in GridDeltas, dz \in GridDeltas : Move(dx, dz)
    \/ CheckPortal

SpecGrid == InitGrid /\ [][NextGrid]_vars

(***************************************************************************)
(* Properties                                                              *)
(***************************************************************************)
\* a grid size the specification allows: odd and at least 5
ValidSize(n) == n % 2 = 1 /\ n >= 5

PathCells(g, n) == {c \in Cells(n) : g[c[1]][c[2]] = 0}

Adjacent(c, d) ==
    \/ c[1] = d[1] /\ (c[2] = d[2] + 1 \/ d[2] = c[2] + 1)
    \/ c[2] = d[2] /\ (c[1] = d[1] + 1 \/ d[1] = c[1] + 1)

\* the path cells a flood fill reaches from the cells of `seen`
RECURSIVE Flood(_, _, _)
Flood(g, n, seen) ==
    LET more == {c \in PathCells(g, n) : c \in seen \/ \E d \in seen : Adjacent(c, d)}
    IN  IF more = seen THEN seen ELSE Flood(g, n, more)

\* number of unordered pairs of 4-adjacent path cells
AdjacentPairs(g, n) ==
    Cardinality({p \in {<<c, d>> : c \in PathCells(g, n), d \in PathCells(g, n)} :
                    \/ p[2] = <<p[1][1] + 1, p[1][2]>>
                    \/ p[2] = <<p[1][1], p[1][2] + 1>>})

Constructed == pc \in {"portal", "camera", "play", "crashed"}

\* C1: in every maze produced by generate_maze, after any sequence of moves
\* from (1.5, 1.5) the cell of the player's centre and the cells of the four
\* corners (x +- 0.2, z +- 0.2) are in-bounds path cells.
C1_CollisionContainment ==
    pc \in {"play", "crashed"} =>
        \A a \in {-PLAYER_RADIUS, 0, PLAYER_RADIUS}, b \in {-PLAYER_RADIUS, 0, PLAYER_RADIUS} :
            (a = 0) = (b = 0) =>
                /\ x + a >= 0 /\ z + b >= 0
                /\ <<(x + a) \div 10, (z + b) \div 10>> \in PathCells(grid, size)

\* the player has moved into another room and stands against a wall: one more
\* short step along x is refused
C1_Witness ==
    /\ pc = "play"
    /\ call.op = "move"
    /\ "x" \in call.committed
    /\ x >= 30
    /\ can_move(grid, x + 2, z) = "False"

\* C2: for odd N >= 5, when generate_maze has returned, every path cell is
\* reached from (1, 1) by steps between 4-adjacent path cells.
C2_Connectivity ==
    (pc = "portal" /\ ValidSize(size)) =>
        Flood(grid, size, {<<1, 1>>}) = PathCells(grid, size)

\* a finished 7 x 7 maze: nine rooms and the eight walls removed between them
C2_Witness ==
    pc = "portal" /\ size = 7 /\ Cardinality(PathCells(grid, size)) = 17

\* C3: for odd N >= 5 the path cells of the generated grid form a tree under
\* 4-adjacency: connected, with one adjacent pair fewer than cells.
C3_PerfectMaze ==
    (pc = "portal" /\ ValidSize(size)) =>
        /\ AdjacentPairs(grid, size) = Cardinality(PathCells(grid, size)) - 1
        /\ \A c \in PathCells(grid, size) : c \in Flood(grid, size, {<<1, 1>>})

\* a finished maze that branches: a room opened to three of its neighbours,
\* which takes a backtrack during generation
C3_Witness ==
    /\ pc = "portal"
    /\ ValidSize(size)
    /\ \E c \in PathCells(grid, size) :
          /\ c[1] % 2 = 1 /\ c[2] % 2 = 1
          /\ Cardinality({d \in PathCells(grid, size) : Adjacent(c, d)}) = 3

\* C4, as claimed: the number of wall removals equals the number of path
\* cells of the final grid minus 1.
C4_RemovalsIsPathMinusOne ==
    (pc = "portal" /\ ValidSize(size)) =>
        removals = Cardinality(PathCells(grid, size)) - 1

\* C4, amended: each removal makes two path cells (the midpoint and the
\* chosen cell), so twice the number of removals is the number of path cells
\* minus 1.
C4_RemovalsIsHalfPathMinusOne ==
    (pc = "portal" /\ ValidSize(size)) =>
        2 * removals = Cardinality(PathCells(grid, size)) - 1

C4_Witness ==
    pc = "portal" /\ size = 7 /\ removals = 8

\* C5: a size that is even or below 5 raises a configuration error instead
\* of producing a grid, and the size the program passes is odd and >= 5.
C5_ConfigurationError ==
    Constructed => (ValidSize(size) /\ ValidSize(MAZE_SIZE))

\* C6: for every size >= 5, odd or even, every cell of row 0, row N-1,
\* column 0 and column N-1 is a wall in every state of the generation and
\* afterwards.
C6_BorderStaysWall ==
    size >= 5 =>
        \A i \in 0..(size - 1) :
            /\ grid[0][i] = 1 /\ grid[size - 1][i] = 1
            /\ grid[i][0] = 1 /\ grid[i][size - 1] = 1

\* the loop stands at the last room of an even-sized grid: the cells two steps
\* further lie on the border and must be filtered out
C6_Witness ==
    /\ pc = "generate"
    /\ size = 6
    /\ stack # <<>>
    /\ Top = <<3, 3>>

\* C7: the goal is the first path cell of the scan of the first index from
\* N-1 down to 1 and, within it, of the second index from N-1 down to 1; it
\* is an in-bounds path cell and the fallback of line 62 is not taken.
C7_GoalValidity ==
    pc \in {"camera", "play", "crashed"} =>
        /\ ~fallback
        /\ portal_pos \in PathCells(grid, size)
        /\ \A c \in PathCells(grid, size) :
              (c[1] >= 1 /\ c[2] >= 1) =>
                  \/ c[1] < portal_pos[1]
                  \/ c[1] = portal_pos[1] /\ c[2] <= portal_pos[2]

\* the goal of an even-sized grid, found after two rows of walls
C7_Witness ==
    pc = "camera" /\ size = 6 /\ portal_pos = <<3, 3>>

\* C8: check_portal_collision is true iff the distance from the player to
\* the centre of the goal cell is strictly less than 0.5.
C8_PortalThreshold ==
    (pc = "play" /\ call.op = "check_portal_collision") =>
        LET centre_x == 10 * portal_pos[1] + 5
            centre_z == 10 * portal_pos[2] + 5
        IN  (call.ret = "True") =
                ((x - centre_x) * (x - centre_x) + (z - centre_z) * (z - centre_z) < 25)

\* C9, as claimed: from (2.4, 2.4), move(+0.3, +0.3) ends at x = 2.7 with z
\* still 2.4.
C9_WallSliding ==
    [][(x = 24 /\ z = 24 /\ Move(3, 3)) => (x' = 27 /\ z' = 24)]_vars

\* C9, amended: with radius 0.2 the square at z = 2.7 reaches 2.9 and stays in
\* cell (2, 2), so both axes are committed: the move ends at (2.7, 2.7).
C9_BothAxesCommitted ==
    [][(x = 24 /\ z = 24 /\ Move(3, 3)) => (x' = 27 /\ z' = 27)]_vars

C9_Witness ==
    /\ pc = "play"
    /\ call.op = "move"
    /\ call.committed = {"x", "z"}
    /\ x = 27
    /\ z = 27
    /\ grid[2][3] = 1

\* C10: at every pose the player reaches and for every delta, move(dx, dz)
\* yields x' = x+dx if can_move(x+dx, z) else x, and then z' = z+dz if
\* can_move(x', z+dz) else z, the z test being made at the updated x'.
C10_AxisDecoupledMove ==
    pc = "play" =>
        \A dx \in Deltas, dz \in Deltas :
            LET r == move(grid, x, z, dx, dz)
                x1 == IF can_move(grid, x + dx, z) = "True" THEN x + dx ELSE x
            IN  /\ r.x = x1
                /\ r.z = IF can_move(grid, x1, z + dz) = "True" THEN z + dz ELSE z

\* a move whose x part was refused and whose z part was committed
C10_Witness ==
    /\ pc = "play"
    /\ call.op = "move"
    /\ call.committed = {"z"}

\* the square of half-width PLAYER_RADIUS centred at (px, pz): its centre and
\* its four corners
SquarePoints(px, pz) ==
    {<<px, pz>>} \cup {<<px + a, pz + b>> : a \in {-PLAYER_RADIUS, PLAYER_RADIUS},
                                           b \in {-PLAYER_RADIUS, PLAYER_RADIUS}}

\* a point with a coordinate below 0 or at or above N
OutOfGrid(n, p) == p[1] < 0 \/ p[1] >= 10 * n \/ p[2] < 0 \/ p[2] >= 10 * n

\* C11: on every grid, can_move is true only if the centre and the four
\* corners lie in in-bounds path cells, and it is false, without raising,
\* whenever the centre or a corner has a coordinate below 0 or at or above N.
C11_FailClosed ==
    pc = "play" =>
        \A dx \in GridDeltas \cup {0}, dz \in GridDeltas \cup {0} :
            LET pts == SquarePoints(x + dx, z + dz)
                r == can_move(grid, x + dx, z + dz)
            IN  /\ r # "IndexError"
                /\ (\E p \in pts : OutOfGrid(size, p)) => r = "False"
                /\ r = "True" =>
                      \A p \in pts : <<p[1] \div 10, p[2] \div 10>> \in PathCells(grid, size)

\* the index pairs the loops of lines 124-128 hand to grid[..][..] from corner
\* k on, as computed by int(), before Python resolves a negative index
RECURSIVE CornerLookups(_, _, _, _)
CornerLookups(g, new_x, new_z, k) ==
    IF k > Len(Corners) THEN {}
    ELSE LET n == len(g)
             ci == int(new_x + Corners[k][1])
             cj == int(new_z + Corners[k][2])
         IN  {<<ci, cj>>} \cup
             (IF ~(IndexOk(n, ci) /\ IndexOk(n, cj)) THEN {}
              ELSE IF g[PyIndex(n, ci)][PyIndex(n, cj)] = 1 THEN {}
              ELSE CornerLookups(g, new_x, new_z, k + 1))

\* every index pair one call of can_move hands to the grid (lines 122, 127)
lookups(g, new_x, new_z) ==
    LET n == len(g)
        maze_x == int(new_x)
        maze_z == int(new_z)
    IN  IF 0 <= maze_x /\ maze_x < n /\ 0 <= maze_z /\ maze_z < n
        THEN {<<maze_x, maze_z>>} \cup
             (IF g[maze_x][maze_z] = 0 THEN CornerLookups(g, new_x, new_z, 1) ELSE {})
        ELSE {}

\* C18: on a generated maze of size >= 5, from every pose the player reaches
\* and for every delta, both can_move calls of move index the grid within
\* 0..N-1: no index error and no negative index.
C18_LookupsInRange ==
    (pc = "play" /\ size >= 5) =>
        \A dx \in Deltas, dz \in Deltas :
            LET x1 == move(grid, x, z, dx, 0).x
            IN  /\ lookups(grid, x + dx, z) \subseteq Cells(size)
                /\ lookups(grid, x1, z + dz) \subseteq Cells(size)
                /\ move(grid, x, z, dx, dz).ret = "None"

\* a query made from a reached pose reads a cell of the last row, N-1, the
\* largest index the grid has
C18_Witness ==
    /\ pc = "play"
    /\ size >= 5
    /\ call.op = "move"
    /\ \E dx \in Deltas : \E p \in lookups(grid, x + dx, z) : p[1] = size - 1

PLAYER_SPEED == 1

\* the moves one key makes at a facing angle that is a multiple of 90 degrees:
\* PLAYER_SPEED along one axis
UnitSteps == {<<PLAYER_SPEED, 0>>, <<-PLAYER_SPEED, 0>>, <<0, PLAYER_SPEED>>, <<0, -PLAYER_SPEED>>}

\* TRUE iff some sequence of move calls with steps of UnitSteps leads from a
\* pose of `frontier` to a pose at which check_portal_collision(p) is true;
\* `seen` holds the poses already visited
RECURSIVE Walk(_, _, _, _)
Walk(g, p, seen, frontier) ==
    IF \E q \in frontier : check_portal_collision(q[1], q[2], p) THEN TRUE
    ELSE LET reached == {<<move(g, q[1], q[2], s[1], s[2]).x, move(g, q[1], q[2], s[1], s[2]).z>> :
                            q \in frontier, s \in UnitSteps}
             new == {q \in reached : q \notin seen}
         IN  IF new = {} THEN FALSE
             ELSE Walk(g, p, {q \in seen \cup new : TRUE}, new)

Winnable(g, p) == Walk(g, p, {<<15, 15>>}, {<<15, 15>>})

\* C17: for every maze the generator produces there is a finite sequence of
\* move calls with steps of length PLAYER_SPEED from the start pose (1.5, 1.5)
\* after which check_portal_collision(portal_pos) is true.
C17_Winnable ==
    pc = "camera" => Winnable(grid, portal_pos)

\* a finished maze of even size, as the configured one, whose goal lies eight
\* cells of corridor or more from the start
C17_Witness ==
    /\ pc = "camera"
    /\ size = 6
    /\ portal_pos = <<3, 3>>
    /\ Winnable(grid, portal_pos)

(***************************************************************************)
(* generate_maze on its own.  The method is a sequential loop that nothing *)
(* suspends: whenever an iteration or the return can run, the interpreter  *)
(* runs it, which is weak fairness of the loop's step.                     *)
(***************************************************************************)
NextGenerate ==
    \/ Carve
    \/ Backtrack
    \/ GenerateReturn

SpecGenerate == Init /\ [][NextGenerate]_vars /\ WF_vars(NextGenerate)

\* a step that pushes a cell pushes one that was WALL and makes it PATH, and
\* no step turns a PATH cell back into WALL
PushOnce ==
    /\ Len(stack') > Len(stack) =>
          /\ grid[stack'[Len(stack')][1]][stack'[Len(stack')][2]] = 1
          /\ grid'[stack'[Len(stack')][1]][stack'[Len(stack')][2]] = 0
    /\ \A c \in PathCells(grid, size) : grid'[c[1]][c[2]] = 0

\* C12: for every size and every sequence of neighbour choices the carving
\* loop eventually empties its stack and returns, and every push is of a cell
\* that was never pushed before.
C12_GenerationTerminates ==
    /\ <>(pc = "portal" /\ stack = <<>>)
    /\ [][PushOnce]_vars

\* generate_maze has returned on the largest grid after every room was pushed
C12_Witness ==
    /\ pc = "portal"
    /\ stack = <<>>
    /\ size = MaxSize
    /\ removals = ((MaxSize - 1) \div 2) * ((MaxSize - 1) \div 2) - 1

(***************************************************************************)
(* The game loop: handle_events, show_menu, show_win_screen and main.      *)
(* Facing angles are whole degrees and only multiples of 90 occur, so that *)
(* cos and sin are -1, 0 or 1; a product below 1e-15 that the floating     *)
(* point cosine of 90 degrees leaves is taken as 0.                        *)
(***************************************************************************)
\* MOUSE_SENSITIVITY 0.12, in hundredths of a degree per pixel
MOUSE_SENSITIVITY == 12

\* horizontal pointer motions (event.rel[0], pixels): a quarter turn each way
MouseRels == {-750, 750}

\* an event of the queue: its type and, for a MOUSEMOTION, event.rel[0]
Quit == [type |-> "QUIT", rel |-> 0]

Motion(rel) == [type |-> "MOUSEMOTION", rel |-> rel]

\* what pygame.event.get() returns in one iteration: no event, one or two
\* pointer motions, a QUIT, a pointer motion followed by a QUIT
EventLists ==
    {<<>>, <<Quit>>, <<Motion(750), Quit>>, <<Motion(750), Motion(750)>>}
        \cup {<<Motion(rel)>> : rel \in MouseRels}

\* the keys of W, S, A, D held during one iteration
KeySets == {{}, {"w"}, {"s"}, {"a"}, {"d"}, {"w", "d"}}

Keys == <<"w", "s", "a", "d">>

\* the size of the maze main constructs: the smallest even one that has a room
MainSizes == {4}

\* largest facing angle, in quarter turns either way
MaxTurns == 1

\* most activations of main on the call stack
MaxDepth == 2

cos(deg) == CASE deg % 360 = 0 -> 1 [] deg % 360 = 180 -> -1 [] OTHER -> 0

sin(deg) == CASE deg % 360 = 90 -> 1 [] deg % 360 = 270 -> -1 [] OTHER -> 0

\* a rotate that stores the angle it is given
rotate_assign(yaw, angle) == angle

\* Camera.rotate: the new angle_yaw
rotate(yaw, angle) == yaw + angle

\* handle_events from event i on: the value returned, the angle_yaw left, the
\* number of rotate calls made and the sum of the angles passed to them
RECURSIVE EventLoop(_, _, _, _, _, _)
EventLoop(yaw, evs, esc, i, rotates, turn) ==
    IF i > Len(evs) THEN [ret |-> TRUE, yaw |-> yaw, rotates |-> rotates, turn |-> turn]
    ELSE IF evs[i].type = "QUIT" \/ esc
         THEN [ret |-> FALSE, yaw |-> yaw, rotates |-> rotates, turn |-> turn]
         ELSE IF evs[i].type = "MOUSEMOTION"
              THEN LET angle == (evs[i].rel * MOUSE_SENSITIVITY) \div 100
                   IN  EventLoop(rotate(yaw, angle), evs, esc, i + 1, rotates + 1, turn + angle)
              ELSE EventLoop(yaw, evs, esc, i + 1, rotates, turn)

handle_events(yaw, evs, esc) == EventLoop(yaw, evs, esc, 1, 0, 0)

\* the arguments main passes to camera.move for key k at facing angle yaw
KeyDelta(k, yaw) ==
    CASE k = "w" -> <<PLAYER_SPEED * cos(yaw), PLAYER_SPEED * sin(yaw)>>
      [] k = "s" -> <<-PLAYER_SPEED * cos(yaw), -PLAYER_SPEED * sin(yaw)>>
      [] k = "a" -> <<PLAYER_SPEED * sin(yaw), -PLAYER_SPEED * cos(yaw)>>
      [] k = "d" -> <<-PLAYER_SPEED * sin(yaw), PLAYER_SPEED * cos(yaw)>>

\* lines 297-308 from key i of Keys on: the position left, the number of move
\* calls made and whether one of them raised
RECURSIVE KeyMoves(_, _, _, _, _, _, _)
KeyMoves(g, cx, cz, yaw, held, i, moves) ==
    IF i > Len(Keys) THEN [x |-> cx, z |-> cz, moves |-> moves, ret |-> "None"]
    ELSE IF Keys[i] \notin held THEN KeyMoves(g, cx, cz, yaw, held, i + 1, moves)
    ELSE LET d == KeyDelta(Keys[i], yaw)
             r == move(g, cx, cz, d[1], d[2])
         IN  IF r.ret = "IndexError"
             THEN [x |-> r.x, z |-> r.z, moves |-> moves + 1, ret |-> "IndexError"]
             ELSE KeyMoves(g, r.x, r.z, yaw, held, i + 1, moves + 1)

\* generate_maze run to its return from the array g and the stack st: every
\* value it can return, one per sequence of results of random.choice, with
\* the number of executions of line 43
RECURSIVE generate_maze(_, _, _, _)
generate_maze(g, n, st, k) ==
    IF st = <<>> THEN {[grid |-> g, removals |-> k]}
    ELSE LET c == st[Len(st)]
             nb == Neighbors(g, n, c)
         IN  IF nb = <<>> THEN generate_maze(g, n, pop(st), k)
             ELSE UNION {generate_maze(CarveGrid(g, c, nb[i]), n, Append(st, nb[i]), k + 1) :
                            i \in 1..Len(nb)}

\* row r of an n x n array from column j on, and the array g from row i on,
\* written out entry by entry: the same function, held as an explicit table
\* so that the nested updates of CarveGrid apply to it one after another
RECURSIVE Row(_, _, _)
Row(r, n, j) == IF j = n - 1 THEN j :> r[j] ELSE (j :> r[j]) @@ Row(r, n, j + 1)

RECURSIVE Rows(_, _, _)
Rows(g, n, i) ==
    IF i = n - 1 THEN i :> Row(g[i], n, 0) ELSE (i :> Row(g[i], n, 0)) @@ Rows(g, n, i + 1)

\* the grids Maze(n) can hold after construction
Mazes(n) == generate_maze(Rows(InitialMaze(n), n, 0), n, << <<1, 1>> >>, 0)

\* show_menu, called first by every activation of main: SPACE returns, QUIT
\* ends the process
ShowMenu(choice) ==
    /\ pc = "menu"
    /\ \/ /\ choice = "SPACE"
          /\ pc' = "start"
          /\ depth' = depth
       \/ /\ choice = "QUIT"
          /\ pc' = "exited"
          /\ depth' = 0
    /\ UNCHANGED <<size, grid, stack, removals, portal_pos, fallback, x, z, call,
                   y, angle_yaw, running, tick>>

\* lines 282-290 of main: Maze(MAZE_SIZE), Camera(maze), running = True
StartGame ==
    /\ pc = "start"
    /\ \E m \in Mazes(size) :
          /\ grid' = m.grid
          /\ removals' = m.removals
          /\ portal_pos' = find_valid_portal_position(m.grid, size).pos
          /\ fallback' = ~find_valid_portal_position(m.grid, size).found
    /\ stack' = <<>>
    /\ x' = 15
    /\ y' = 5
    /\ z' = 15
    /\ angle_yaw' = 0
    /\ running' = TRUE
    /\ tick' = NoTick
    /\ pc' = "play"
    /\ UNCHANGED <<size, call, depth>>

\* one iteration of the loop of main (lines 291-320): handle_events, the moves
\* of the held keys, the portal test; a hit enters show_win_screen
Tick(evs, esc, held) ==
    /\ pc = "play"
    /\ running
    /\ LET h == handle_events(angle_yaw, evs, esc)
           m == KeyMoves(grid, x, z, h.yaw, held, 1, 0)
           crashed == m.ret = "IndexError"
       IN  /\ h.yaw >= -90 * MaxTurns
           /\ h.yaw <= 90 * MaxTurns
           /\ running' = h.ret
           /\ angle_yaw' = h.yaw
           /\ x' = m.x
           /\ z' = m.z
           /\ tick' = [quit |-> ~h.ret, moves |-> m.moves, rotates |-> h.rotates,
                       turn |-> h.turn, checked |-> ~crashed]
           /\ pc' = IF crashed THEN "crashed"
                    ELSE IF check_portal_collision(m.x, m.z, portal_pos) THEN "won"
                    ELSE "play"
    /\ UNCHANGED <<size, grid, stack, removals, portal_pos, fallback, call, y, depth>>

\* a win screen whose key R goes back to the loop of the game that was won
WinScreen_resume(choice) ==
    /\ pc = "won"
    /\ pc' = IF choice = "r" THEN "play" ELSE "exited"
    /\ depth' = IF choice = "r" THEN depth ELSE 0
    /\ running' = (choice = "r")
    /\ UNCHANGED <<size, grid, stack, removals, portal_pos, fallback, x, z, call,
                   y, angle_yaw, tick>>

\* show_win_screen and what main does with its result (lines 323-326): R
\* returns True and main calls main(), ESC returns False and main leaves its
\* loop and returns, as do the activations waiting in `return main()`; QUIT
\* ends the process
WinScreen(choice) ==
    /\ pc = "won"
    /\ \/ /\ choice = "r"
          /\ depth < MaxDepth
          /\ depth' = depth + 1
          /\ pc' = "menu"
          /\ UNCHANGED running
       \/ /\ choice = "ESCAPE"
          /\ running' = FALSE
          /\ pc' = "exited"
          /\ depth' = 0
       \/ /\ choice = "QUIT"
          /\ pc' = "exited"
          /\ depth' = 0
          /\ UNCHANGED running
    /\ UNCHANGED <<size, grid, stack, removals, portal_pos, fallback, x, z, call,
                   y, angle_yaw, tick>>

\* `while running` fails (line 291): pygame.quit(), main returns, and so does
\* every activation waiting in `return main()`
LoopExit ==
    /\ pc = "play"
    /\ ~running
    /\ pc' = "exited"
    /\ depth' = 0
    /\ UNCHANGED <<size, grid, stack, removals, portal_pos, fallback, x, z, call,
                   y, angle_yaw, running, tick>>

InitMain ==
    /\ size \in MainSizes
    /\ grid = InitialMaze(size)
    /\ stack = <<>>
    /\ removals = 0
    /\ portal_pos = <<0, 0>>
    /\ fallback = FALSE
    /\ x = 0
    /\ z = 0
    /\ call = NoCall
    /\ pc = "menu"
    /\ y = 0
    /\ angle_yaw = 0
    /\ running = TRUE
    /\ tick = NoTick
    /\ depth = 1

NextMain ==
    \/ \E choice \in {"SPACE", "QUIT"} : ShowMenu(choice)
    \/ StartGame
    \/ \E evs \in EventLists, esc \in BOOLEAN, held \in KeySets :
          Tick(evs, esc, held)
    \/ \E choice \in {"r", "ESCAPE", "QUIT"} : WinScreen(choice)
    \/ LoopExit

SpecMain == InitMain /\ [][NextMain]_vars

\* C13: Maze(N) is a function of N alone, the only input the constructor
\* takes: the grid a construction returns is the only grid any construction
\* of that size can return, and the goal cell is the one computed from it.
C13_Deterministic ==
    pc = "camera" =>
        /\ \A m \in Mazes(size) : m.grid = grid
        /\ portal_pos = find_valid_portal_position(grid, size).pos

\* C14: every iteration of the loop of main makes exactly one move call and
\* exactly one rotate call, whatever keys are held and events arrived.
C14_OneMoveOneRotate ==
    (pc \in {"play", "won"} /\ tick # NoTick) => (tick.moves = 1 /\ tick.rotates = 1)

\* C15: the number of activations of main on the call stack stays below a
\* constant however often the game is restarted; the constant is taken as
\* large as the model lets the stack grow, MaxDepth.
C15_BoundedActivations ==
    depth < MaxDepth

\* C16: an iteration that only rotates adds exactly the angles passed to
\* rotate to angle_yaw and leaves x, y, z; an iteration that only moves leaves
\* angle_yaw and y; y is 0.5 and no iteration changes the grid or the goal.
C16_Frame ==
    [][(pc = "play" /\ running) =>
          /\ y = 5 /\ y' = y
          /\ grid' = grid
          /\ portal_pos' = portal_pos
          /\ angle_yaw' = angle_yaw + tick'.turn
          /\ (tick'.moves = 0 => (x' = x /\ z' = z))
          /\ (tick'.rotates = 0 => angle_yaw' = angle_yaw)]_vars

\* an iteration made a rotate call from a facing angle other than 0 and a
\* move call that changed the position
C16_Witness ==
    /\ pc = "play"
    /\ tick.rotates = 1
    /\ tick.moves = 1
    /\ angle_yaw # tick.turn
    /\ <<x, z>> # <<15, 15>>

\* C19: from the win screen the program goes only to the menu of a new
\* activation or to its end; the loop is entered only from line 290, with a
\* maze and goal built by Maze(MAZE_SIZE) and the pose (1.5, 1.5) facing 0;
\* and from the goal detection to that construction the pose does not change.
C19_RestartResets ==
    [][/\ (pc = "won" /\ pc' # "won") => pc' \in {"menu", "exited"}
       /\ (pc' = "play" /\ pc # "play") =>
             /\ pc = "start"
             /\ [grid |-> grid', removals |-> removals'] \in Mazes(size)
             /\ portal_pos' = find_valid_portal_position(grid', size).pos
             /\ <<x', z', angle_yaw'>> = <<15, 15, 0>>
       /\ pc \in {"won", "menu"} => <<x', z', angle_yaw'>> = <<x, z, angle_yaw>>]_vars

\* the game started by a restart stands at its first iteration, after a game
\* that was won away from the start pose
C19_Witness ==
    /\ pc = "play"
    /\ depth = 2
    /\ tick = NoTick
    /\ <<x, z, angle_yaw>> = <<15, 15, 0>>

\* C20: an iteration in which handle_events returned False makes no move and
\* no portal test, so it cannot enter the win screen and no restart follows.
C20_QuitEndsTick ==
    tick.quit => (tick.moves = 0 /\ ~tick.checked /\ pc \in {"play", "exited"})

\* the step-by-step loop of generate_maze and its run to the return agree:
\* every grid the loop leaves is one of Mazes(size), with the same count
GenerateAgrees ==
    pc = "camera" => [grid |-> grid, removals |-> removals] \in Mazes(size)
====
